---- MODULE Spec2Model ----
(***************************************************************************)
(* Model of chatbot_system/backend/chatbot.py: the Flask handlers          *)
(* /, /upload, /ask, /summarize and /health, the three models loaded at    *)
(* import time, and the upload folder.                                     *)
(*                                                                         *)
(* Strings that the handlers measure and scan (question, context) are      *)
(* run-length encoded: a string is a sequence of runs [ch, n], adjacent    *)
(* runs having distinct characters, so that len(), str.strip() and the     *)
(* `in` substring test are computed on strings of the real lengths         *)
(* (1000 and 100000 characters).                                           *)
(*                                                                         *)
(* The CSRF check and the rate limiter run before a handler, never inside  *)
(* one: a request they turn away reaches no handler and is not modelled.   *)
(***************************************************************************)
EXTENDS Integers, Sequences, FiniteSets, TLC

VARIABLES qa_pipeline, summarizer, rag_model, cur, files, upl

vars == <<qa_pipeline, summarizer, rag_model, cur, files, upl>>

(***************************************************************************)
(* Bounds of the model.                                                    *)
(***************************************************************************)
MaxQRuns == 3      \* runs in a question
MaxCRuns == 2      \* runs in a context
MaxUploads == 2    \* concurrent /upload requests

(***************************************************************************)
(* Run-length encoded strings.                                             *)
(***************************************************************************)
\* Characters are named; the ones that are delimiters of this notation are
\* spelled out.
NL == "LF"
CR == "CR"
TAB == "TAB"
SP == " "
QUOTE == "QUOTE"
DQUOTE == "DQUOTE"
BACKSLASH == "BACKSLASH"
BACKTICK == "BACKTICK"
STAR == "STAR"
LPAREN == "LPAREN"
RPAREN == "RPAREN"
Whitespace == {SP, NL, CR, TAB}

Run(c, k) == [ch |-> c, n |-> k]

Lit1(c) == <<Run(c, 1)>>

Normalized(s) == \A i \in 1..(Len(s) - 1) : s[i].ch # s[i + 1].ch

RLEStrings(chars, counts, max) ==
    LET runs == { Run(c, k) : c \in chars, k \in counts }
    IN  { s \in UNION { [1..m -> runs] : m \in 0..max } : Normalized(s) }

RECURSIVE StrLen(_)
StrLen(s) == IF s = <<>> THEN 0 ELSE s[1].n + StrLen(Tail(s))

RECURSIVE LStrip(_)
LStrip(s) ==
    IF s = <<>> THEN <<>>
    ELSE IF s[1].ch \in Whitespace THEN LStrip(Tail(s)) ELSE s

RECURSIVE RStrip(_)
RStrip(s) ==
    IF s = <<>> THEN <<>>
    ELSE IF s[Len(s)].ch \in Whitespace THEN RStrip(SubSeq(s, 1, Len(s) - 1))
    ELSE s

Strip(s) == RStrip(LStrip(s))

\* pat occurs in s starting inside run i of s
MatchAt(s, pat, i) ==
    LET k == Len(pat)
    IN  /\ i + k - 1 <= Len(s)
        /\ \A j \in 1..k : s[i + j - 1].ch = pat[j].ch
        /\ IF k = 1 THEN s[i].n >= pat[1].n
           ELSE /\ s[i].n >= pat[1].n
                /\ s[i + k - 1].n >= pat[k].n
                /\ \A j \in 2..(k - 1) : s[i + j - 1].n = pat[j].n

Contains(s, pat) == \E i \in 1..Len(s) : MatchAt(s, pat, i)

(***************************************************************************)
(* The denylist of ask_question, in the order of the source.               *)
(***************************************************************************)
injection_characters ==
    << Lit1(QUOTE), Lit1(DQUOTE), <<Run("-", 2)>>,
       <<Run("/", 1), Run(STAR, 1)>>, <<Run(STAR, 1), Run("/", 1)>>,
       Lit1(";"), Lit1(LPAREN), Lit1(RPAREN), Lit1("="), Lit1("<"), Lit1(">"),
       <<Run("!", 1), Run("=", 1)>>,
       <<Run("L", 1), Run("I", 1), Run("K", 1), Run("E", 1)>>,
       <<Run("U", 1), Run("N", 1), Run("I", 1), Run("O", 1), Run("N", 1)>>,
       <<Run("|", 2)>>, Lit1(BACKSLASH), Lit1("|"), Lit1("&"), Lit1(BACKTICK),
       Lit1("$"), Lit1(STAR), Lit1("["), Lit1("]"),
       <<Run("&", 2)>>, Lit1(">"), <<Run(">", 2)>>, Lit1(CR), Lit1(NL),
       Lit1("{"), Lit1("}"), Lit1(":"), Lit1(",") >>

HasInjection(question) ==
    \E i \in 1..Len(injection_characters) :
        Contains(question, injection_characters[i])

MaxQuestionLen == 1000
MaxContextLen == 100000

(***************************************************************************)
(* Request bodies.  get_json() either raises (malformed JSON), or returns  *)
(* a falsy value (null, {}, [], 0, ""), a truthy value that is no dict,    *)
(* or a non-empty dict whose "question"/"context" entries are missing,     *)
(* null, a non-string value, or a string.                                  *)
(***************************************************************************)
Field(k, v) == [kind |-> k, val |-> v]

Missing == Field("missing", <<>>)
Null == Field("null", <<>>)
NonStr == Field("nonstr", <<>>)

QChars == {NL, "a", "-", ";"}
QCounts == {1, 1000}
CChars == {SP, "a"}
CCounts == {1, 100000, 100001}

QFields ==
    {Missing, Null, NonStr}
        \cup { Field("str", s) : s \in RLEStrings(QChars, QCounts, MaxQRuns) }

CFields ==
    {Missing, Null, NonStr}
        \cup { Field("str", s) : s \in RLEStrings(CChars, CCounts, MaxCRuns) }

Body(k, q, c) == [kind |-> k, question |-> q, context |-> c]

AskBodies ==
    { Body(k, Missing, Missing) : k \in {"malformed", "falsy", "nondict"} }
        \cup { Body("dict", q, c) : q \in QFields, c \in CFields }

SummarizeBodies ==
    { Body(k, Missing, Missing) : k \in {"malformed", "falsy", "nondict"} }
        \cup { Body("dict", Missing, c) : c \in CFields }

\* data.get(key, "") : the default only replaces a missing key
Get(f) == IF f.kind = "missing" THEN Field("str", <<>>) ELSE f

\* .strip() exists on strings only
CanStrip(f) == Get(f).kind = "str"

(***************************************************************************)
(* Outcomes of the calls the handlers make.                                *)
(***************************************************************************)
ExcTexts == {"e1", "e2"}
Answers == {"Paris", ""}
Scores == {0, 29996, 30000, 99999}      \* in units of 1/100000

NotCalled == [kind |-> "notcalled"]
Raise(t) == [kind |-> "raise", exc |-> t]
Raises == { Raise(t) : t \in ExcTexts }

QAOutcomes ==
    Raises \cup { [kind |-> "answer", answer |-> a, score |-> s] :
                    a \in Answers, s \in Scores }

SummarizerOutcomes == Raises \cup { [kind |-> "summary", text |-> "summary"] }

RenderOutcomes == Raises \cup { [kind |-> "html"] }

\* round(score, 4), half to even, on a score in units of 1/100000
Round4(s) ==
    LET q == s \div 10
        r == s % 10
    IN  IF r < 5 THEN 10 * q
        ELSE IF r > 5 THEN 10 * (q + 1)
        ELSE IF q % 2 = 0 THEN 10 * q ELSE 10 * (q + 1)

Resp(st, b, qa, rag) ==
    [status |-> st, body |-> b, qaCalled |-> qa, ragCalled |-> rag]

Err(msg) == [error |-> msg]


(***************************************************************************)
(* detect_hallucination_rag.  Without a RAG model it answers False at      *)
(* once.  With one, the tokenizer and the model are consulted and the      *)
(* comparison then refers to the name `util`, which the module never       *)
(* binds: the call ends in an exception on every input.                    *)
(***************************************************************************)
\* the check answering True where no model loaded
detect_hallucination_rag_closed(rag) ==
    IF ~rag
    THEN [kind |-> "value", val |-> TRUE, consulted |-> FALSE]
    ELSE [kind |-> "raise", val |-> FALSE, consulted |-> TRUE]

detect_hallucination_rag(rag) ==
    IF ~rag
    THEN [kind |-> "value", val |-> FALSE, consulted |-> FALSE]
    ELSE [kind |-> "raise", val |-> FALSE, consulted |-> TRUE]

(***************************************************************************)
(* ask_question up to the call of the QA model: the response it returns,   *)
(* or Pass when the request goes on to the model.                          *)
(***************************************************************************)
Pass == Resp(0, Err("pass"), FALSE, FALSE)

InternalServerError == Resp(500, Err("Internal server error"), FALSE, FALSE)

ask_validate(qa, data) ==
    IF ~qa
    THEN Resp(503, Err("QA model not available"), FALSE, FALSE)
    ELSE IF data.kind = "malformed" THEN InternalServerError
    ELSE IF data.kind = "falsy"
    THEN Resp(400, Err("Invalid JSON"), FALSE, FALSE)
    ELSE IF data.kind = "nondict" THEN InternalServerError
    ELSE IF ~CanStrip(data.question) THEN InternalServerError
    ELSE IF ~CanStrip(data.context) THEN InternalServerError
    ELSE LET question == Strip(Get(data.question).val)
             context == Strip(Get(data.context).val)
         IN  IF question = <<>> \/ context = <<>>
             THEN Resp(400, Err("Question and context are required"),
                       FALSE, FALSE)
             ELSE IF StrLen(question) > MaxQuestionLen
             THEN Resp(400, Err("Question too long (max 1000 characters)"),
                       FALSE, FALSE)
             ELSE IF StrLen(context) > MaxContextLen
             THEN Resp(400, Err("Context too long (max 100000 characters)"),
                       FALSE, FALSE)
             ELSE IF HasInjection(question)
             THEN Resp(400, Err("The given text may contain malicious content. Please revise your question."),
                       FALSE, FALSE)
             ELSE Pass

(***************************************************************************)
(* ask_question from the call of the QA model on.                          *)
(***************************************************************************)
ask_answer(rag, qaOut) ==
    IF qaOut.kind = "raise"
    THEN Resp(500, Err("Error generating answer"), TRUE, FALSE)
    ELSE LET det == detect_hallucination_rag(rag)
         IN  IF det.kind = "raise"
             THEN Resp(500, Err("Error generating answer"), TRUE, det.consulted)
             ELSE IF det.val
             THEN Resp(200,
                       [answer |-> qaOut.answer,
                        confidence |-> Round4(qaOut.score),
                        warning |-> "The answer may not be consistent with the document context."],
                       TRUE, det.consulted)
             ELSE Resp(200,
                       [answer |-> qaOut.answer,
                        confidence |-> Round4(qaOut.score)],
                       TRUE, det.consulted)

ask_question(qa, rag, data, qaOut) ==
    IF ask_validate(qa, data) = Pass
    THEN ask_answer(rag, qaOut)
    ELSE ask_validate(qa, data)

(***************************************************************************)
(* summarize_document.                                                     *)
(***************************************************************************)
summarize_validate(sm, data) ==
    IF ~sm
    THEN Resp(503, Err("Summarization model not available"), FALSE, FALSE)
    ELSE IF data.kind = "malformed" THEN InternalServerError
    ELSE IF data.kind = "falsy"
    THEN Resp(400, Err("Invalid JSON"), FALSE, FALSE)
    ELSE IF data.kind = "nondict" THEN InternalServerError
    ELSE IF ~CanStrip(data.context) THEN InternalServerError
    ELSE IF Strip(Get(data.context).val) = <<>>
    THEN Resp(400, Err("Context is required for summarization"), FALSE, FALSE)
    ELSE Pass

summarize_document(sm, data, smOut) ==
    IF summarize_validate(sm, data) # Pass
    THEN summarize_validate(sm, data)
    ELSE IF smOut.kind = "raise" THEN InternalServerError
    ELSE Resp(200, [summary |-> smOut.text], FALSE, FALSE)

(***************************************************************************)
(* index and health_check.                                                 *)
(***************************************************************************)
index(renderOut) ==
    IF renderOut.kind = "raise"
    THEN Resp(500, [text |-> <<"Error: ", renderOut.exc>>], FALSE, FALSE)
    ELSE Resp(200, [html |-> "index.html"], FALSE, FALSE)

health_check ==
    Resp(200, [status |-> "healthy", model |-> "loaded"], FALSE, FALSE)

(***************************************************************************)
(* upload_file.  A file name is a sequence of characters.                  *)
(***************************************************************************)
Filenames ==
    { <<>>,
      <<"a", ".", "p", "d", "f">>,
      <<"a", ".", "P", "D", "F">>,
      <<"a", ".", "t", "x", "t">>,
      <<"p", "d", "f">> }

LowerChar(c) ==
    CASE c = "P" -> "p"
      [] c = "D" -> "d"
      [] c = "F" -> "f"
      [] OTHER -> c

Lower(name) == [i \in 1..Len(name) |-> LowerChar(name[i])]

EndsWith(name, suffix) ==
    /\ Len(name) >= Len(suffix)
    /\ SubSeq(name, Len(name) - Len(suffix) + 1, Len(name)) = suffix

\* validate_file: <<is_valid, error_message>>
validate_file(filename) ==
    IF filename = <<>> THEN <<FALSE, "No file selected">>
    ELSE IF ~EndsWith(Lower(filename), <<".", "p", "d", "f">>)
    THEN <<FALSE, "Only PDF files are supported">>
    ELSE <<TRUE, "">>

\* what extract_text_from_pdf returns
Texts == { <<>>, <<Run(SP, 1)>>, <<Run(NL, 1), Run("a", 1)>> }

ExtractOutcomes == Raises \cup { [kind |-> "text", text |-> t] : t \in Texts }

\* file.save(pdf_path): the file is written, or the call raises before or
\* after the file came to exist
SaveOutcomes ==
    { [kind |-> "saved", exc |-> "", created |-> TRUE] }
        \cup { [kind |-> "raise", exc |-> t, created |-> c] :
                 t \in ExcTexts, c \in BOOLEAN }

\* secure_temp_file: a name of 256 bits drawn from a fresh 128-bit token;
\* the name of request r is r
secure_temp_file(r) == r

\* the response of the try block once text was extracted or a call raised
upload_response(out) ==
    IF out.kind = "raise" THEN <<500, Err(out.exc)>>
    ELSE IF Strip(out.text) = <<>>
    THEN <<400, Err("No text could be extracted from the PDF")>>
    ELSE <<200, [message |-> "File processed successfully", text |-> out.text]>>

\* the finally block: the folder after it ran for the temporary file
\* pdf_path, removeOk telling whether os.remove succeeds
\* the existence test inverted: the file that is there is left there
upload_finally_inverted(fs, pdf_path, removeOk) ==
    IF pdf_path \notin fs /\ removeOk THEN fs \ {pdf_path} ELSE fs

upload_finally(fs, pdf_path, removeOk) ==
    IF pdf_path \in fs /\ removeOk THEN fs \ {pdf_path} ELSE fs

(***************************************************************************)
(* The request in hand: route, body, outcome of the call the handler made, *)
(* and the response.  Idle between requests.                               *)
(***************************************************************************)
NoBody == Body("none", Missing, Missing)

Idle == [route |-> "idle", data |-> NoBody, out |-> NotCalled, resp |-> Pass]

Handled(route, data, out, resp) ==
    [route |-> route, data |-> data, out |-> out, resp |-> resp]

\* The upload of request r: where the handler stands, what it was sent and
\* what the calls it made did.
NoUpload ==
    [pc |-> "start", hasFile |-> FALSE, filename |-> <<>>, saved |-> FALSE,
     created |-> FALSE, removeFailed |-> FALSE,
     status |-> 0, body |-> Err("")]

Init ==
    /\ qa_pipeline \in BOOLEAN
    /\ summarizer \in BOOLEAN
    /\ rag_model \in BOOLEAN
    /\ cur = Idle
    /\ files = {}
    /\ upl = [r \in 1..MaxUploads |-> NoUpload]

AskQuestion ==
    /\ cur = Idle
    /\ \E data \in AskBodies :
         \E qaOut \in (IF ask_validate(qa_pipeline, data) = Pass
                       THEN QAOutcomes ELSE {NotCalled}) :
            cur' = Handled("ask", data, qaOut,
                           ask_question(qa_pipeline, rag_model, data, qaOut))
    /\ UNCHANGED <<qa_pipeline, summarizer, rag_model, files, upl>>

SummarizeDocument ==
    /\ cur = Idle
    /\ \E data \in SummarizeBodies :
         \E smOut \in (IF summarize_validate(summarizer, data) = Pass
                       THEN SummarizerOutcomes ELSE {NotCalled}) :
            cur' = Handled("summarize", data, smOut,
                           summarize_document(summarizer, data, smOut))
    /\ UNCHANGED <<qa_pipeline, summarizer, rag_model, files, upl>>

Index ==
    /\ cur = Idle
    /\ \E renderOut \in RenderOutcomes :
         cur' = Handled("index", NoBody, renderOut, index(renderOut))
    /\ UNCHANGED <<qa_pipeline, summarizer, rag_model, files, upl>>

HealthCheck ==
    /\ cur = Idle
    /\ cur' = Handled("health", NoBody, NotCalled, health_check)
    /\ UNCHANGED <<qa_pipeline, summarizer, rag_model, files, upl>>

\* the response leaves; the worker takes the next request
SendResponse ==
    /\ cur # Idle
    /\ cur' = Idle
    /\ UNCHANGED <<qa_pipeline, summarizer, rag_model, files, upl>>

(***************************************************************************)
(* /upload, one step per call that touches the folder; requests run        *)
(* concurrently.                                                           *)
(***************************************************************************)
UploadBegin(r) ==
    /\ upl[r].pc = "start"
    /\ \E hasFile \in BOOLEAN :
         \E filename \in (IF hasFile THEN Filenames ELSE {<<>>}) :
            LET v == validate_file(filename)
            IN  upl' = [upl EXCEPT ![r] =
                    IF ~hasFile
                    THEN [@ EXCEPT !.pc = "done", !.status = 400,
                                   !.body = Err("No file part")]
                    ELSE IF ~v[1]
                    THEN [@ EXCEPT !.pc = "done", !.hasFile = TRUE,
                                   !.filename = filename, !.status = 400,
                                   !.body = Err(v[2])]
                    ELSE [@ EXCEPT !.pc = "save", !.hasFile = TRUE,
                                   !.filename = filename]]
    /\ UNCHANGED <<qa_pipeline, summarizer, rag_model, cur, files>>

UploadSave(r) ==
    /\ upl[r].pc = "save"
    /\ \E out \in SaveOutcomes :
         /\ files' = IF out.created THEN files \cup {secure_temp_file(r)}
                     ELSE files
         /\ upl' = [upl EXCEPT ![r] =
                IF out.kind = "raise"
                THEN [@ EXCEPT !.pc = "finally", !.saved = TRUE,
                               !.created = out.created,
                               !.status = upload_response(Raise(out.exc))[1],
                               !.body = upload_response(Raise(out.exc))[2]]
                ELSE [@ EXCEPT !.pc = "extract", !.saved = TRUE,
                               !.created = TRUE]]
    /\ UNCHANGED <<qa_pipeline, summarizer, rag_model, cur>>

UploadExtract(r) ==
    /\ upl[r].pc = "extract"
    /\ \E out \in ExtractOutcomes :
         upl' = [upl EXCEPT ![r] =
                    [@ EXCEPT !.pc = "finally",
                              !.status = upload_response(out)[1],
                              !.body = upload_response(out)[2]]]
    /\ UNCHANGED <<qa_pipeline, summarizer, rag_model, cur, files>>

UploadFinally(r) ==
    /\ upl[r].pc = "finally"
    /\ \E removeOk \in BOOLEAN :
         /\ files' = upload_finally(files, secure_temp_file(r), removeOk)
         /\ upl' = [upl EXCEPT ![r] =
                [@ EXCEPT !.pc = "done",
                          !.removeFailed =
                              secure_temp_file(r) \in files /\ ~removeOk]]
    /\ UNCHANGED <<qa_pipeline, summarizer, rag_model, cur>>

NextUpload ==
    \E r \in 1..MaxUploads :
        \/ UploadBegin(r)
        \/ UploadSave(r)
        \/ UploadExtract(r)
        \/ UploadFinally(r)

SpecUpload == Init /\ [][NextUpload]_vars

Next ==
    \/ AskQuestion
    \/ SummarizeDocument
    \/ Index
    \/ HealthCheck
    \/ SendResponse

Spec == Init /\ [][Next]_vars

(***************************************************************************)
(* Properties.                                                             *)
(***************************************************************************)
AskOnDict == cur.route = "ask" /\ cur.data.kind = "dict"

StrippedField(f) == Strip(Get(f).val)

QuestionTooLong ==
    /\ AskOnDict
    /\ cur.data.question.kind = "str"
    /\ StrLen(StrippedField(cur.data.question)) > MaxQuestionLen

ContextTooLong ==
    /\ AskOnDict
    /\ cur.data.context.kind = "str"
    /\ StrLen(StrippedField(cur.data.context)) > MaxContextLen

\* C1: an /ask request whose stripped question is longer than 1000
\* characters, or whose stripped context is longer than 100000 characters,
\* is answered 400 and the QA model is not called for it.
C1_OversizedRejected400 ==
    (QuestionTooLong \/ ContextTooLong)
        => (cur.resp.status = 400 /\ ~cur.resp.qaCalled)

QuestionHasInjection ==
    /\ AskOnDict
    /\ cur.data.question.kind = "str"
    /\ HasInjection(StrippedField(cur.data.question))

\* C2: an /ask request whose question contains an entry of the denylist is
\* answered 400, and neither the QA model nor the hallucination check is
\* called for it.
C2_InjectionRejected400 ==
    QuestionHasInjection
        => (cur.resp.status = 400 /\ ~cur.resp.qaCalled /\ ~cur.resp.ragCalled)

OracleAnswered == cur.route = "ask" /\ cur.out.kind = "answer"

CarriesAnswer ==
    /\ cur.resp.status = 200
    /\ {"answer", "confidence"} \subseteq DOMAIN cur.resp.body
    /\ cur.resp.body.answer = cur.out.answer

\* C3: whenever the QA model returned an answer, the response is a 200
\* carrying that answer and a confidence, whatever the hallucination check
\* did.
C3_CheckIsAdvisory == OracleAnswered => CarriesAnswer

FieldInvalid(f, limit) ==
    \/ f.kind # "str"
    \/ StrippedField(f) = <<>>
    \/ StrLen(StrippedField(f)) > limit

\* the request in hand carries a validation error
ValidationError ==
    \/ /\ cur.route \in {"ask", "summarize"}
       /\ cur.data.kind # "dict"
    \/ /\ AskOnDict
       /\ \/ FieldInvalid(cur.data.question, MaxQuestionLen)
          \/ FieldInvalid(cur.data.context, MaxContextLen)
          \/ QuestionHasInjection
    \/ /\ cur.route = "summarize"
       /\ cur.data.kind = "dict"
       /\ \/ cur.data.context.kind # "str"
          \/ StrippedField(cur.data.context) = <<>>

\* C4: a request that carries a validation error is answered 4xx, whatever
\* models loaded and whatever the shape of its body.
C4_ValidationIs4xx == ValidationError => cur.resp.status \in 400..499

\* an oracle the handler needs did not load, or its call raised
OracleError ==
    \/ cur.route = "ask" /\ ~qa_pipeline
    \/ cur.route = "summarize" /\ ~summarizer
    \/ cur.route \in {"ask", "summarize"} /\ cur.out.kind = "raise"

\* C5: an oracle error during /ask or /summarize is answered 503.
C5_OracleErrorIs503 == OracleError => cur.resp.status = 503

WithText(out, t) == IF out.kind = "raise" THEN Raise(t) ELSE out

\* the response to the request in hand, had its internal exception carried
\* the text t
Rerun(t) ==
    CASE cur.route = "ask" ->
            ask_question(qa_pipeline, rag_model, cur.data, WithText(cur.out, t))
      [] cur.route = "summarize" ->
            summarize_document(summarizer, cur.data, WithText(cur.out, t))
      [] cur.route = "index" -> index(WithText(cur.out, t))
      [] OTHER -> cur.resp

\* C6: the body of a 500 response is the same whatever the text of the
\* internal exception.
C6_Generic500 ==
    cur.resp.status = 500 => \A t \in ExcTexts : Rerun(t).body = cur.resp.body

LowConfidenceWarning ==
    /\ "warning" \in DOMAIN cur.resp.body
    /\ cur.resp.body.warning = "LowConfidence"

\* C7: an answer of confidence below 0.3 is returned with a LowConfidence
\* warning, an answer of confidence 0.3 or more is returned without one.
C7_LowConfidenceWarned ==
    OracleAnswered
        => /\ CarriesAnswer
           /\ (cur.out.score < 30000 <=> LowConfidenceWarning)

\* C8: /health reports the model as loaded only if the QA model loaded.
C8_HealthReflectsModels ==
    (/\ cur.route = "health"
     /\ cur.resp.body.model = "loaded")
        => qa_pipeline

\* C9: when the upload handler has returned, the temporary file it saved is
\* gone from the folder unless its removal failed, on the 200, 400 and 500
\* paths alike, and a request rejected by validation created no file.
C9_TempFileRemoved ==
    \A r \in 1..MaxUploads :
        upl[r].pc = "done"
            => /\ (upl[r].saved /\ ~upl[r].removeFailed)
                    => secure_temp_file(r) \notin files
               /\ ~upl[r].saved
                    => (~upl[r].created /\ secure_temp_file(r) \notin files)

C9_Witness ==
    \E r \in 1..MaxUploads :
        /\ upl[r].pc = "done"
        /\ upl[r].created
        /\ upl[r].status = 500
        /\ ~upl[r].removeFailed
        /\ secure_temp_file(r) \notin files

\* C10: without a RAG model, an /ask request answered by the QA model gets a
\* 200 whose body is exactly the answer and the confidence rounded to four
\* decimals, with no warning, and the check consults no model.
C10_FailOpen ==
    (OracleAnswered /\ ~rag_model)
        => /\ cur.resp.status = 200
           /\ DOMAIN cur.resp.body = {"answer", "confidence"}
           /\ cur.resp.body.answer = cur.out.answer
           /\ cur.resp.body.confidence % 10 = 0
           /\ cur.resp.body.confidence - cur.out.score \in -5..5
           /\ cur.resp.qaCalled
           /\ ~cur.resp.ragCalled

C10_Witness ==
    /\ OracleAnswered
    /\ ~rag_model
    /\ cur.out.score = 29996
    /\ cur.resp.status = 200
    /\ cur.resp.body.confidence = 30000

====
